---- MODULE Spec2Model ----
(***************************************************************************)
(* vscode-theme-editor (src/src/vscode_theme_editor/main.py) as a state    *)
(* machine over the files of one directory.  A text is a sequence of       *)
(* one-character strings; a file is a text or Absent.  The commands init,  *)
(* apply and run are one action each; the pastel tool the code shells out  *)
(* to is modelled by what it does on the hex colours #rgb and #rrggbb.     *)
(***************************************************************************)
EXTENDS Naturals, Sequences, FiniteSets, TLC

VARIABLES fs, last

vars == <<fs, last>>

(* ------------------------------ bounds -------------------------------- *)

MaxPieces == 2

MaxEditLines == 2

MaxOps == 2

(* ----------------------------- characters ----------------------------- *)

QT == "\""

NL == "\n"

SP == " "

HexLower == {"a", "b", "c"}

HexUpper == {"A", "B", "C"}

HexDigits == HexLower \cup HexUpper

(* what a missing file holds: no text is this sequence *)
Absent == <<"ABSENT">>

(* str.lower() on one character *)
LowerChar(c) ==
    CASE c = "A" -> "a"
      [] c = "B" -> "b"
      [] c = "C" -> "c"
      [] OTHER -> c

Lower(s) == [i \in 1..Len(s) |-> LowerChar(s[i])]

IsSpace(c) == c \in {SP, NL}

(* str.strip() *)
RECURSIVE LStrip(_)
LStrip(s) == IF s # <<>> /\ IsSpace(Head(s)) THEN LStrip(Tail(s)) ELSE s

RECURSIVE RStrip(_)
RStrip(s) ==
    IF s # <<>> /\ IsSpace(s[Len(s)]) THEN RStrip(SubSeq(s, 1, Len(s) - 1)) ELSE s

Strip(s) == LStrip(RStrip(s))

(* sep.join(parts) *)
RECURSIVE Join(_, _)
Join(parts, sep) ==
    IF parts = <<>> THEN <<>>
    ELSE IF Len(parts) = 1 THEN parts[1]
    ELSE parts[1] \o sep \o Join(Tail(parts), sep)

(* the index of the first c in s, 0 when there is none *)
RECURSIVE IndexOf(_, _, _)
IndexOf(s, c, i) ==
    IF i > Len(s) THEN 0 ELSE IF s[i] = c THEN i ELSE IndexOf(s, c, i + 1)

(* str.split(c): always at least one part *)
RECURSIVE Split(_, _)
Split(s, c) ==
    LET k == IndexOf(s, c, 1)
    IN  IF k = 0 THEN <<s>>
        ELSE <<SubSeq(s, 1, k - 1)>> \o Split(SubSeq(s, k + 1, Len(s)), c)

(* whether pat occurs in s at position i, ignoring case *)
MatchAt(s, pat, i) ==
    /\ i + Len(pat) - 1 <= Len(s)
    /\ \A k \in 1..Len(pat) : LowerChar(s[i + k - 1]) = LowerChar(pat[k])

(* whether pat occurs somewhere in s, ignoring case *)
OccursIn(pat, s) == \E i \in 1..(Len(s) + 1) : MatchAt(s, pat, i)

(* ------------------------- the pastel tool ---------------------------- *)
(* pastel parses #rgb and #rrggbb and prints a colour as lower-case        *)
(* #rrggbb; anything else it is handed is a non-zero exit (Fail).          *)

Fail == <<"FAIL">>

(* the same for a call whose output is a list of lines *)
FailList == <<Fail>>

PastelParses(s) ==
    /\ Len(s) \in {4, 7}
    /\ s[1] = "#"
    /\ \A i \in 2..Len(s) : s[i] \in HexDigits

(* `pastel format hex` on a colour it parses *)
Canonical(s) ==
    IF Len(s) = 7 THEN Lower(s)
    ELSE Lower(<<s[1], s[2], s[2], s[3], s[3], s[4], s[4]>>)

FormatHex(s) == IF PastelParses(s) THEN Canonical(s) ELSE Fail

DigitValue(c) ==
    CASE c = "a" -> 10
      [] c = "b" -> 11
      [] c = "c" -> 12

(* the channels of a canonical colour *)
Channel(c, k) == 16 * DigitValue(c[2 * k]) + DigitValue(c[2 * k + 1])

Luminance(c) == 2126 * Channel(c, 1) + 7152 * Channel(c, 2) + 722 * Channel(c, 3)

(* the hue sector of a canonical colour: 0 for a grey, else by the largest *)
(* channel and the order of the other two                                  *)
Hue(c) ==
    LET r == Channel(c, 1)
        g == Channel(c, 2)
        b == Channel(c, 3)
    IN  IF r = g /\ g = b THEN 0
        ELSE IF r >= g /\ r >= b THEN (IF g >= b THEN 1 ELSE 6)
        ELSE IF g >= r /\ g >= b THEN (IF r >= b THEN 2 ELSE 3)
        ELSE (IF g >= r THEN 4 ELSE 5)

(* a stable insertion of x into the sorted sequence s *)
RECURSIVE InsertSorted(_, _, _)
InsertSorted(s, x, key) ==
    IF s = <<>> THEN <<x>>
    ELSE IF key[x] < key[Head(s)] THEN <<x>> \o s
    ELSE <<Head(s)>> \o InsertSorted(Tail(s), x, key)

RECURSIVE StableSort(_, _)
StableSort(s, key) ==
    IF s = <<>> THEN <<>>
    ELSE InsertSorted(StableSort(SubSeq(s, 1, Len(s) - 1), key), s[Len(s)], key)

Range(s) == {s[i] : i \in 1..Len(s)}

(* `pastel sort-by hue|luminance` on the lines of its input: the colours   *)
(* in canonical form, sorted (stably) by the key; Fail when a line is no   *)
(* colour                                                                  *)
SortByHue(lines) ==
    IF \E i \in 1..Len(lines) : ~PastelParses(lines[i]) THEN FailList
    ELSE LET cs == [i \in 1..Len(lines) |-> Canonical(lines[i])]
         IN  StableSort(cs, [c \in Range(cs) |-> Hue(c)])

SortByLuminance(lines) ==
    IF \E i \in 1..Len(lines) : ~PastelParses(lines[i]) THEN FailList
    ELSE LET cs == [i \in 1..Len(lines) |-> Canonical(lines[i])]
         IN  StableSort(cs, [c \in Range(cs) |-> Luminance(c)])

(* the colour operations of the model: rotate turns every digit a->b->c->a *)
(* (a stand-in for lighten, saturate, ...), bad is an operation pastel     *)
(* rejects for every colour                                                *)
Ops == {"rotate", "bad"}

RotateChar(c) ==
    CASE c = "a" -> "b"
      [] c = "b" -> "c"
      [] c = "c" -> "a"
      [] OTHER -> c

(* `pastel <op> <color>`: stdout, or Fail *)
PastelOp(op, color) ==
    IF op = "bad" \/ ~PastelParses(color) THEN Fail
    ELSE [i \in 1..7 |-> RotateChar(Canonical(color)[i])]

(* --------------------------- main.py ---------------------------------- *)

(* the end of a match of "(#[0-9a-fA-F]+?)" that starts at i, 0 for none *)
RECURSIVE HexRunEnd(_, _)
HexRunEnd(s, k) ==
    IF k <= Len(s) /\ s[k] \in HexDigits THEN HexRunEnd(s, k + 1) ELSE k

MatchEnd(s, i) ==
    IF i + 3 <= Len(s) /\ s[i] = QT /\ s[i + 1] = "#"
    THEN LET k == HexRunEnd(s, i + 2)
         IN  IF k >= i + 3 /\ k <= Len(s) /\ s[k] = QT THEN k ELSE 0
    ELSE 0

(* re.findall: the groups of the non-overlapping matches, left to right *)
RECURSIVE FindAll(_, _)
FindAll(s, i) ==
    IF i > Len(s) THEN <<>>
    ELSE LET e == MatchEnd(s, i)
         IN  IF e = 0 THEN FindAll(s, i + 1)
             ELSE <<SubSeq(s, i + 1, e - 1)>> \o FindAll(s, e + 1)

(* set(re.findall(...)) *)
FoundColors(content) == Range(FindAll(content, 1))

(* list(set): the orders a set can be listed in *)
Listings(S) ==
    {q \in [1..Cardinality(S) -> S] : \A x \in S : \E i \in DOMAIN q : q[i] = x}

(* extract_colors, given the listing of the set: the colours, or FailList *)
extract_colors(colors) ==
    IF colors = <<>> THEN <<>>
    ELSE LET hue_sorted == SortByHue(colors)
         IN  IF hue_sorted = FailList THEN FailList
             ELSE LET lum_sorted == SortByLuminance(hue_sorted)
                  IN  IF lum_sorted = FailList
                         \/ \E i \in 1..Len(lum_sorted) : FormatHex(lum_sorted[i]) = Fail
                      THEN FailList
                      ELSE [i \in 1..Len(lum_sorted) |-> FormatHex(lum_sorted[i])]

(* a file name is a sequence of parts; a part that starts with a dot is a  *)
(* suffix.  Path.stem drops the last suffix of a name of several parts.    *)
Suffixes == {".json", ".bak", ".txt"}

Stem(name) ==
    IF Len(name) > 1 /\ name[Len(name)] \in Suffixes
    THEN SubSeq(name, 1, Len(name) - 1)
    ELSE name

get_paths(theme_file) ==
    [og_file |-> <<"og_">> \o theme_file,
     replacements_file |-> <<"replacements_">> \o Stem(theme_file) \o <<".txt">>]

(* one line of the replacements file: split at the first space, strip both *)
ParseLine(line) ==
    LET k == IndexOf(line, SP, 1)
    IN  <<Strip(SubSeq(line, 1, k - 1)), Strip(SubSeq(line, k + 1, Len(line)))>>

RECURSIVE ParseLines(_)
ParseLines(lines) ==
    IF lines = <<>> THEN <<>>
    ELSE IF Head(lines) # <<>> /\ IndexOf(Head(lines), SP, 1) # 0
         THEN <<ParseLine(Head(lines))>> \o ParseLines(Tail(lines))
         ELSE ParseLines(Tail(lines))

read_replacements(text) == ParseLines(Split(Strip(text), NL))

(* re.sub(re.escape(old), new, content, flags=re.IGNORECASE) *)
RECURSIVE ReSub(_, _, _, _)
ReSub(old, new, content, i) ==
    IF i > Len(content) THEN (IF old = <<>> THEN new ELSE <<>>)
    ELSE IF old = <<>> THEN new \o <<content[i]>> \o ReSub(old, new, content, i + 1)
    ELSE IF MatchAt(content, old, i)
         THEN new \o ReSub(old, new, content, i + Len(old))
         ELSE <<content[i]>> \o ReSub(old, new, content, i + 1)

(* a mutant of apply_color_replacement: re.sub without re.IGNORECASE *)
RECURSIVE ReSubExact(_, _, _, _)
ReSubExact(old, new, content, i) ==
    IF i > Len(content) THEN (IF old = <<>> THEN new ELSE <<>>)
    ELSE IF old = <<>> THEN new \o <<content[i]>> \o ReSubExact(old, new, content, i + 1)
    ELSE IF i + Len(old) - 1 <= Len(content) /\ SubSeq(content, i, i + Len(old) - 1) = old
         THEN new \o ReSubExact(old, new, content, i + Len(old))
         ELSE <<content[i]>> \o ReSubExact(old, new, content, i + 1)

apply_color_replacement_CaseSensitive(content, old, new) ==
    IF old = new THEN content ELSE ReSubExact(old, new, content, 1)

apply_color_replacement(content, old, new) ==
    IF old = new THEN content ELSE ReSub(old, new, content, 1)

(* a mutant of Logged: the log line comes before the test for a no-op *)
Logged_EveryPair(pairs) == Len(pairs)

(* how many pairs apply_color_replacement logs "replacing" for *)
RECURSIVE Logged(_)
Logged(pairs) ==
    IF pairs = <<>> THEN 0
    ELSE (IF Head(pairs)[1] = Head(pairs)[2] THEN 0 ELSE 1) + Logged(Tail(pairs))

(* a mutant of run_pastel_command: a failing step yields an empty colour *)
run_pastel_command_Placeholder(color, command) ==
    IF PastelOp(command, color) = Fail THEN <<>>
    ELSE IF FormatHex(Strip(PastelOp(command, color))) = Fail THEN <<>>
    ELSE Strip(FormatHex(Strip(PastelOp(command, color))))

run_pastel_command(color, command) ==
    LET result == PastelOp(command, color)
    IN  IF result = Fail THEN color
        ELSE IF FormatHex(Strip(result)) = Fail THEN color
        ELSE Strip(FormatHex(Strip(result)))

(* reduce(f, items, initial), with f one of the two folds of main.py *)
RECURSIVE ReducePairs(_, _)
ReducePairs(pairs, acc) ==
    IF pairs = <<>> THEN acc
    ELSE ReducePairs(Tail(pairs),
                     apply_color_replacement(acc, Head(pairs)[1], Head(pairs)[2]))

RECURSIVE ReduceCommands(_, _)
ReduceCommands(commands, color) ==
    IF commands = <<>> THEN color
    ELSE ReduceCommands(Tail(commands), run_pastel_command(color, Head(commands)))

(* ------------------------- the directory ------------------------------ *)

(* the pieces a theme file is made of: quoted hex literals in several     *)
(* spellings, a quoted literal pastel does not parse, and other text      *)
ThemePieces ==
    <<<<QT, "#", "A", "A", "A", QT>>,
      <<QT, "#", "a", "a", "a", "a", "a", "a", QT>>,
      <<QT, "#", "b", "b", "b", "b", "b", "b", QT>>,
      <<QT, "#", "a", "b", QT>>>>

(* the lines of a hand-edited replacements file: two pairs that cascade, *)
(* a colour given an alpha channel (which pastel does not parse), a line  *)
(* with no space, and an indented line                                    *)
EditLines ==
    <<<<"#", "A", "A", "A", SP, "#", "B", "B", "B">>,
      <<"#", "B", "B", "B", SP, "#", "C", "C", "C">>,
      <<"#", "a", "a", "a", "a", "a", "a", SP, "#", "a", "a", "a", "a", "a", "a", "c", "c">>,
      <<"x">>,
      <<SP, "#", "a", "a", "a", SP, "#", "b", "b", "b">>>>

(* the subsequences of s of at most n elements *)
RECURSIVE SubSeqsUpTo(_, _)
SubSeqsUpTo(s, n) ==
    IF s = <<>> \/ n = 0 THEN {<<>>}
    ELSE SubSeqsUpTo(Tail(s), n)
         \cup {<<Head(s)>> \o q : q \in SubSeqsUpTo(Tail(s), n - 1)}

RECURSIVE SeqsUpTo(_, _)
SeqsUpTo(S, n) ==
    IF n = 0 THEN {<<>>}
    ELSE LET shorter == SeqsUpTo(S, n - 1)
         IN  shorter \cup {<<x>> \o q : x \in S, q \in {r \in shorter : Len(r) = n - 1}}

ThemeTexts == {Join(q, <<>>) : q \in SubSeqsUpTo(ThemePieces, MaxPieces)}

EditTexts == {Join(q, <<NL>>) : q \in SubSeqsUpTo(EditLines, MaxEditLines)}

OpLists == SeqsUpTo(Ops, MaxOps) \ {<<>>}

MainTheme == <<"a", ".json">>

ThemeNames == {<<"a", ".json">>, <<"a", ".bak">>, <<"og_", "a", ".json">>}

Paths ==
    ThemeNames \cup {get_paths(t).og_file : t \in ThemeNames}
               \cup {get_paths(t).replacements_file : t \in ThemeNames}

Exists(f, p) == f[p] # Absent

(* what a command leaves behind for the console and the exit code *)
Outcome(cmd, t, ops, ok, tool, logged) ==
    [cmd |-> cmd, theme |-> t, ops |-> ops, ok |-> ok, tool |-> tool, logged |-> logged]

(* ---------------------------- commands -------------------------------- *)

(* a mutant of InitSnapshot: init snapshots the theme file every time *)
InitSnapshot_Always(f, t) == [f EXCEPT ![get_paths(t).og_file] = f[t]]

(* the original copy as init leaves it *)
InitSnapshot(f, t) ==
    LET og == get_paths(t).og_file
    IN  IF Exists(f, og) THEN f ELSE [f EXCEPT ![og] = f[t]]

(* a mutant of InitSource: init extracts from the theme file as it is now *)
InitSource_Theme(f, t) == f[t]

(* the text init extracts the colours from *)
InitSource(f, t) == f[get_paths(t).og_file]

IdentityLines(colors) == [i \in 1..Len(colors) |-> colors[i] \o <<SP>> \o colors[i]]

init(t) ==
    IF ~Exists(fs, t)
    THEN /\ fs' = fs
         /\ last' = Outcome("init", t, <<>>, FALSE, FALSE, 0)
    ELSE \E f1 \in {InitSnapshot(fs, t)} :
         \E listing \in Listings(FoundColors(InitSource(f1, t))) :
         \E colors \in {extract_colors(listing)} :
            IF colors = FailList
            THEN /\ fs' = f1
                 /\ last' = Outcome("init", t, <<>>, FALSE, TRUE, 0)
            ELSE /\ fs' = [f1 EXCEPT ![get_paths(t).replacements_file] =
                                Join(IdentityLines(colors), <<NL>>)]
                 /\ last' = Outcome("init", t, <<>>, TRUE, listing # <<>>, 0)

(* a mutant of ApplySource: apply patches the theme file as it is now *)
ApplySource_Theme(f, t) == f[t]

(* the text apply starts the substitutions from *)
ApplySource(f, t) == f[get_paths(t).og_file]

(* apply on the directory f: the directory after it, whether it succeeded  *)
(* and how many replacements it logged                                     *)
ApplyPairs(f, t, pairs) ==
    [fs |-> [f EXCEPT ![t] = ReducePairs(pairs, ApplySource(f, t))],
     ok |-> TRUE,
     logged |-> Logged(pairs)]

ApplyResult(f, t) ==
    IF \/ ~Exists(f, t)
       \/ ~Exists(f, get_paths(t).replacements_file)
       \/ ~Exists(f, get_paths(t).og_file)
    THEN [fs |-> f, ok |-> FALSE, logged |-> 0]
    ELSE ApplyPairs(f, t, read_replacements(f[get_paths(t).replacements_file]))

apply(t) ==
    \E r \in {ApplyResult(fs, t)} :
        /\ fs' = r.fs
        /\ last' = Outcome("apply", t, <<>>, r.ok, FALSE, r.logged)

(* the lines run writes back *)
NewReplacements(pairs, pastel_commands) ==
    [i \in 1..Len(pairs) |->
        pairs[i][1] \o <<SP>> \o ReduceCommands(pastel_commands, pairs[i][2])]

(* the directory after run has rewritten the replacements file *)
Rewritten(f, t, pairs, pastel_commands) ==
    [f EXCEPT ![get_paths(t).replacements_file] =
        Join(NewReplacements(pairs, pastel_commands), <<NL>>)]

(* run: the pairs read, the file rewritten, then apply on the result *)
run(t, pastel_commands) ==
    IF ~Exists(fs, get_paths(t).replacements_file)
    THEN /\ fs' = fs
         /\ last' = Outcome("run", t, pastel_commands, FALSE, FALSE, 0)
    ELSE \E pairs \in {read_replacements(fs[get_paths(t).replacements_file])} :
         \E f1 \in {Rewritten(fs, t, pairs, pastel_commands)} :
         \E r \in {ApplyResult(f1, t)} :
            /\ fs' = r.fs
            /\ last' = Outcome("run", t, pastel_commands, r.ok, pairs # <<>>, r.logged)

(* ------------------------- the user's hand ---------------------------- *)

(* the user edits an existing replacements file *)
EditReplacements(t, text) ==
    /\ Exists(fs, get_paths(t).replacements_file)
    /\ fs' = [fs EXCEPT ![get_paths(t).replacements_file] = text]
    /\ last' = Outcome("edit", t, <<>>, TRUE, FALSE, 0)

(* the user removes or renames the theme file *)
RemoveTheme(t) ==
    /\ Exists(fs, t)
    /\ fs' = [fs EXCEPT ![t] = Absent]
    /\ last' = Outcome("remove", t, <<>>, TRUE, FALSE, 0)

(* ------------------------ one theme file ------------------------------ *)

Init ==
    /\ \E text \in ThemeTexts : fs = [p \in Paths |-> IF p = MainTheme THEN text ELSE Absent]
    /\ last = Outcome("none", MainTheme, <<>>, TRUE, FALSE, 0)

Next ==
    \/ init(MainTheme)
    \/ apply(MainTheme)
    \/ \E ops \in OpLists : run(MainTheme, ops)
    \/ \E text \in EditTexts : EditReplacements(MainTheme, text)
    \/ RemoveTheme(MainTheme)

Spec == Init /\ [][Next]_vars

(* ---------------------- several theme files --------------------------- *)

(* what the theme files of the directory hold at the start *)
MultiTexts ==
    {<<QT, "#", "a", "a", "a", "a", "a", "a", QT>>,
     <<QT, "#", "b", "b", "b", "b", "b", "b", QT>>}

InitMulti ==
    /\ \E content \in [ThemeNames -> MultiTexts \cup {Absent}] :
          fs = [p \in Paths |-> IF p \in ThemeNames THEN content[p] ELSE Absent]
    /\ last = Outcome("none", MainTheme, <<>>, TRUE, FALSE, 0)

NextMulti ==
    \E t \in ThemeNames :
        \/ init(t)
        \/ apply(t)
        \/ run(t, <<"rotate">>)

SpecMulti == InitMulti /\ [][NextMulti]_vars

(* ----------------------------- claims --------------------------------- *)

Commands == {"init", "apply", "run"}

OgFile == get_paths(MainTheme).og_file

ReplFile == get_paths(MainTheme).replacements_file

(* C1: once the original-copy file exists no step changes its content, and *)
(* a step that creates it is an init that snapshots the theme file as it   *)
(* was at that moment.                                                     *)
C1_OriginalCopyFrozen ==
    [][/\ Exists(fs, OgFile) => fs'[OgFile] = fs[OgFile]
       /\ (~Exists(fs, OgFile) /\ Exists(fs', OgFile)) =>
              (last'.cmd = "init" /\ fs'[OgFile] = fs[MainTheme])]_vars

(* C1's case: a second init has succeeded after a run changed the theme    *)
(* file, and the original copy is still there, different from the theme.   *)
C1_Witness ==
    /\ last.cmd = "init" /\ last.ok
    /\ Exists(fs, MainTheme) /\ Exists(fs, OgFile)
    /\ fs[MainTheme] # fs[OgFile]

(* the content after the first k pairs, each acting on what the earlier    *)
(* ones left                                                               *)
RECURSIVE Cumulative(_, _, _)
Cumulative(content, pairs, k) ==
    IF k = 0 THEN content
    ELSE LET before == Cumulative(content, pairs, k - 1)
         IN  IF pairs[k][1] = pairs[k][2] THEN before
             ELSE ReSub(pairs[k][1], pairs[k][2], before, 1)

CascadePairs ==
    <<<<<<"#", "A", "A", "A">>, <<"#", "B", "B", "B">>>>,
      <<<<"#", "B", "B", "B">>, <<"#", "C", "C", "C">>>>>>

(* C2: after a successful apply, alone or at the end of run, the theme     *)
(* file is the left fold of the substitution over the pairs of the         *)
(* replacements file, in file order, from the original copy's content; and *)
(* the pairs (#AAA,#BBB), (#BBB,#CCC) turn "#AAA" into "#CCC".             *)
C2_ApplyIsFoldFromOriginal ==
    /\ (last.cmd \in {"apply", "run"} /\ last.ok) =>
          LET pairs == read_replacements(fs[ReplFile])
          IN  fs[MainTheme] = Cumulative(fs[OgFile], pairs, Len(pairs))
    /\ ReducePairs(CascadePairs, <<"#", "A", "A", "A">>) = <<"#", "C", "C", "C">>

(* C2's case: apply has folded the cascading pairs over an original copy   *)
(* that holds "#AAA".                                                      *)
C2_Witness ==
    /\ last.cmd = "apply" /\ last.ok
    /\ read_replacements(fs[ReplFile]) = CascadePairs
    /\ fs[OgFile] = <<QT, "#", "A", "A", "A", QT>>
    /\ fs[MainTheme] = <<QT, "#", "C", "C", "C", QT>>

(* the pairs a run is to leave: the originals, each with the operations    *)
(* folded over its previous current                                        *)
Transformed(pairs, ops) ==
    [i \in 1..Len(pairs) |-> <<pairs[i][1], ReduceCommands(ops, pairs[i][2])>>]

(* C3: a successful run leaves a replacements file that holds the same     *)
(* pairs in the same order, each original unchanged and each current the   *)
(* fold of the operation list over the previous current.                   *)
C3_RunRewritesMapping ==
    [][(last'.cmd = "run" /\ last'.ok) =>
          read_replacements(fs'[ReplFile])
              = Transformed(read_replacements(fs[ReplFile]), last'.ops)]_vars

(* a string of the shape of a hex colour: # and then hex digits only *)
HexShaped(s) ==
    /\ Len(s) >= 2
    /\ s[1] = "#"
    /\ \A i \in 2..Len(s) : s[i] \in HexDigits

SameIgnoringCase(a, b) == Lower(a) = Lower(b)

(* where old stood in content, current stands in result *)
StandsWherever(old, current, content, result) ==
    \A i \in 1..Len(content) :
        MatchAt(content, old, i) =>
            /\ i + Len(current) - 1 <= Len(result)
            /\ SubSeq(result, i, i + Len(current) - 1) = current

(* every other pair of the mapping is a no-op *)
OnlyEffectivePair(pairs, i) ==
    \A j \in 1..Len(pairs) : j # i => pairs[j][1] = pairs[j][2]

(* C4 as stated, for a pair of strings of the shape of a hex colour: with  *)
(* old # current and no other pair acting, after apply the theme holds no  *)
(* occurrence of old, ignoring case, and holds current wherever old        *)
(* occurred in the original copy.                                          *)
C4_NoOccurrenceOfOld ==
    (last.cmd \in {"apply", "run"} /\ last.ok) =>
        LET pairs == read_replacements(fs[ReplFile])
        IN  \A i \in 1..Len(pairs) :
                (/\ pairs[i][1] # pairs[i][2]
                 /\ HexShaped(pairs[i][1]) /\ HexShaped(pairs[i][2])
                 /\ OnlyEffectivePair(pairs, i)) =>
                    /\ ~OccursIn(pairs[i][1], fs[MainTheme])
                    /\ OccursIn(pairs[i][1], fs[OgFile]) =>
                           OccursIn(pairs[i][2], fs[MainTheme])

(* the pairs that change something, old and current of the shape of a hex  *)
(* colour of length n                                                      *)
AllOfLength(pairs, n) ==
    \A j \in 1..Len(pairs) :
        pairs[j][1] # pairs[j][2] =>
            /\ HexShaped(pairs[j][1]) /\ Len(pairs[j][1]) = n
            /\ HexShaped(pairs[j][2]) /\ Len(pairs[j][2]) = n

(* no other pair that changes something names old or current of pair i *)
NoOverlap(pairs, i) ==
    \A j \in 1..Len(pairs) :
        (j # i /\ pairs[j][1] # pairs[j][2]) =>
            \A a \in {pairs[j][1], pairs[j][2]}, b \in {pairs[i][1], pairs[i][2]} :
                ~SameIgnoringCase(a, b)

(* C4, amended: when old and current are hex colours of one length that    *)
(* differ beyond case, the other pairs that change something are hex       *)
(* colours of that length too and none of them names old or current, then  *)
(* after apply the theme holds no occurrence of old, ignoring case, and    *)
(* current stands at every place where old stood in the original copy.     *)
C4_ReplacedWhenDistinct ==
    (last.cmd \in {"apply", "run"} /\ last.ok) =>
        LET pairs == read_replacements(fs[ReplFile])
        IN  \A i \in 1..Len(pairs) :
                (/\ ~SameIgnoringCase(pairs[i][1], pairs[i][2])
                 /\ AllOfLength(pairs, Len(pairs[i][1]))
                 /\ NoOverlap(pairs, i)) =>
                    /\ ~OccursIn(pairs[i][1], fs[MainTheme])
                    /\ StandsWherever(pairs[i][1], pairs[i][2], fs[OgFile], fs[MainTheme])

(* C4's case: apply has replaced #AAA, which the original copy spells in   *)
(* lower case inside #aaaaaa, by #BBB.                                     *)
C4_Witness ==
    /\ last.cmd = "apply" /\ last.ok
    /\ read_replacements(fs[ReplFile]) = <<CascadePairs[1]>>
    /\ fs[OgFile] = <<QT, "#", "a", "a", "a", "a", "a", "a", QT>>
    /\ fs[MainTheme] = <<QT, "#", "B", "B", "B", "a", "a", "a", QT>>

IdentityMapping(pairs) == \A i \in 1..Len(pairs) : pairs[i][1] = pairs[i][2]

(* C5 as stated: with an identity mapping, apply leaves the theme file's   *)
(* content unchanged, from any state, and logs no replacement.             *)
C5_IdentityApplyChangesNothing ==
    [][(/\ last'.cmd = "apply" /\ last'.ok
        /\ IdentityMapping(read_replacements(fs[ReplFile]))) =>
           (fs'[MainTheme] = fs[MainTheme] /\ last'.logged = 0)]_vars

(* C5, amended: with an identity mapping, a successful apply leaves the    *)
(* theme file equal to the original copy (so it changes nothing when the   *)
(* theme file already equals the original copy, and a second apply         *)
(* changes nothing) and logs no replacement.                               *)
C5_IdentityApplyRestoresOriginal ==
    (/\ last.cmd = "apply" /\ last.ok
     /\ IdentityMapping(read_replacements(fs[ReplFile]))) =>
        (fs[MainTheme] = fs[OgFile] /\ last.logged = 0)

(* C5's case: apply has run with a mapping of identity pairs only. *)
C5_Witness ==
    /\ last.cmd = "apply" /\ last.ok
    /\ read_replacements(fs[ReplFile]) # <<>>
    /\ IdentityMapping(read_replacements(fs[ReplFile]))
    /\ fs[MainTheme] = fs[OgFile]

(* whether the step `pastel <op> <color>`, or the hex formatting of its    *)
(* output, exits non-zero                                                  *)
StepFails(op, color) ==
    PastelOp(op, color) = Fail \/ FormatHex(Strip(PastelOp(op, color))) = Fail

(* what a step leaves: its input when it fails, else the formatted output *)
StepOutcome(op, input) ==
    IF StepFails(op, input) THEN input ELSE FormatHex(Strip(PastelOp(op, input)))

(* the colour after the first k operations *)
RECURSIVE AfterSteps(_, _, _)
AfterSteps(color, ops, k) ==
    IF k = 0 THEN color ELSE StepOutcome(ops[k], AfterSteps(color, ops, k - 1))

(* the lines of the text run writes: none for an empty text *)
WrittenLines(text) == IF text = <<>> THEN <<>> ELSE Split(text, NL)

(* C6: run absorbs a failing step: whenever the replacements file exists,  *)
(* run writes one line per pair it read, the original and the colour that  *)
(* the steps leave when each failing step hands its input on, so a pair    *)
(* all of whose steps fail is written back as it was read while the other  *)
(* pairs are still transformed; and run ends well whenever the theme file  *)
(* and the original copy exist.                                            *)
C6_FailingStepAbsorbed ==
    [][(last'.cmd = "run" /\ Exists(fs, ReplFile)) =>
          \A pairs \in {read_replacements(fs[ReplFile])} :
          \A written \in {WrittenLines(fs'[ReplFile])} :
              /\ Len(written) = Len(pairs)
              /\ \A i \in 1..Len(pairs) :
                    /\ written[i]
                          = pairs[i][1] \o <<SP>>
                              \o AfterSteps(pairs[i][2], last'.ops, Len(last'.ops))
                    /\ (\A k \in 1..Len(last'.ops) : StepFails(last'.ops[k], pairs[i][2])) =>
                          written[i] = pairs[i][1] \o <<SP>> \o pairs[i][2]
              /\ (Exists(fs, MainTheme) /\ Exists(fs, OgFile)) => last'.ok]_vars

(* C6's case: a run of rotate over #AAA #BBB and #aaaaaa #aaaaaacc: the    *)
(* operation fails for #aaaaaacc, whose line is as it was, and #BBB has    *)
(* become #cccccc.                                                         *)
C6_Witness ==
    /\ last.cmd = "run" /\ last.ok /\ last.ops = <<"rotate">>
    /\ Exists(fs, ReplFile)
    /\ WrittenLines(fs[ReplFile])
          = << <<"#", "A", "A", "A", SP, "#", "c", "c", "c", "c", "c", "c">>,
               <<"#", "a", "a", "a", "a", "a", "a", SP,
                 "#", "a", "a", "a", "a", "a", "a", "c", "c">> >>

(* C7: a command given a theme file that does not exist ends in an error   *)
(* before any I/O: no tool is invoked and no file is created or changed.   *)
C7_MissingThemeNoIO ==
    [][(last'.cmd \in Commands /\ ~Exists(fs, MainTheme)) =>
          (~last'.ok /\ ~last'.tool /\ fs' = fs)]_vars

(* C8: after a successful init the replacements file is exactly one line   *)
(* `color color` per colour extracted from the original copy, in the order *)
(* of extraction, whatever it held before and whatever the theme file      *)
(* holds; with no hex colour in the original copy it is empty.             *)
C8_InitWritesIdentityMapping ==
    (last.cmd = "init" /\ last.ok) =>
        /\ \E listing \in Listings(FoundColors(fs[OgFile])) :
              LET colors == extract_colors(listing)
              IN  /\ colors # FailList
                  /\ WrittenLines(fs[ReplFile])
                        = [i \in 1..Len(colors) |-> colors[i] \o <<SP>> \o colors[i]]
                  /\ read_replacements(fs[ReplFile])
                        = [i \in 1..Len(colors) |-> <<colors[i], colors[i]>>]
        /\ FoundColors(fs[OgFile]) = {} => fs[ReplFile] = <<>>

(* C8's case: init has succeeded over a theme file that a run had changed, *)
(* and has written pairs.                                                  *)
C8_Witness ==
    /\ last.cmd = "init" /\ last.ok
    /\ Exists(fs, MainTheme) /\ fs[MainTheme] # fs[OgFile]
    /\ read_replacements(fs[ReplFile]) # <<>>

(* C9: every original that init writes is a quoted hex literal of the      *)
(* original copy, as it is spelled there, and distinct literals give       *)
(* distinct originals.                                                     *)
C9_OriginalsAsFirstSeen ==
    (last.cmd = "init" /\ last.ok) =>
        LET pairs == read_replacements(fs[ReplFile])
            literals == FoundColors(fs[OgFile])
        IN  /\ \A i \in 1..Len(pairs) : pairs[i][1] \in literals
            /\ Cardinality({pairs[i][1] : i \in 1..Len(pairs)}) = Cardinality(literals)

(* the three files of a theme file *)
FilesOf(t) == {t, get_paths(t).og_file, get_paths(t).replacements_file}

(* C10: a command on one theme file leaves the theme file, the original    *)
(* copy and the replacements file of every other theme file of the         *)
(* directory as they were.                                                 *)
C10_IsolatedPerThemeFile ==
    [][last'.cmd \in Commands =>
          \A t \in ThemeNames \ {last'.theme} :
              \A p \in FilesOf(t) : fs'[p] = fs[p]]_vars

====
